---------------------------- MODULE Spec2Model ----------------------------
(***************************************************************************)
(* A model of farce: the Position primitive (FEN decoding, make_move) of   *)
(* src/src/position.rs, opposite_color of src/src/color.rs, and the        *)
(* command loop and command channel of src/src/main.rs and                 *)
(* src/src/engine_thread_manager.rs.                                       *)
(*                                                                         *)
(* Texts are sequences of one-character strings.  A u32 is a pair          *)
(* <<hi, lo>> of 16-bit limbs (value hi * 65536 + lo), so that the full    *)
(* width of halfmove_clock is kept.                                        *)
(***************************************************************************)
EXTENDS Integers, Sequences, FiniteSets, TLC

VARIABLES
    fen,        \* the text handed to from_fen
    pos,        \* the Position (NoPosition before construction)
    st,         \* "new" | "ready" | "panicked" : the thread owning the Position
    call,       \* the last call on the Position: arguments, Position before, outcome
    prev,       \* the call before the last one
    nmoves,     \* number of make_move calls so far
    mpc,        \* main(): "start" | "loop" | "exited" | "panicked"
    rx_alive,   \* whether the Receiver end of the channel still exists
    chan,       \* messages sitting in the channel, oldest first
    out,        \* lines written to standard output
    handled     \* input lines main() has read and dispatched, in order

posvars == <<fen, pos, st, call, prev, nmoves>>
ucivars == <<mpc, rx_alive, chan, out, handled>>
vars == <<fen, pos, st, call, prev, nmoves, mpc, rx_alive, chan, out, handled>>

---------------------------------------------------------------------------
(* Bounds of the model *)

\* make_move calls in one behaviour of Spec
MaxMoves == 2
\* length of the rank-8 description in the texts of SpecFen
MaxRankLen == 3
\* input lines read by main() in one behaviour of SpecUci
MaxLines == 2

---------------------------------------------------------------------------
(* position.rs: constants *)

ROW_1 == 7
ROW_2 == 6
ROW_3 == 5
ROW_4 == 4
ROW_5 == 3
ROW_6 == 2
ROW_7 == 1
ROW_8 == 0

COL_A == 0
COL_B == 1
COL_C == 2
COL_D == 3
COL_E == 4
COL_F == 5
COL_G == 6
COL_H == 7

Rows == 0 .. 7
Cols == 0 .. 7
Squares == Rows \X Cols

---------------------------------------------------------------------------
(* color.rs, Cell, Option *)

Colors == {"White", "Black"}

opposite_color(color) ==
    CASE color = "White" -> "Black"
      [] color = "Black" -> "White"

PieceTypes == {"Pawn", "Knight", "Bishop", "Rook", "Queen", "King"}

Empty == <<"Empty">>
Piece(piece_type, color) == <<"Piece", piece_type, color>>
IsPiece(cell) == cell[1] = "Piece"
TypeOf(cell) == cell[2]
ColorOf(cell) == cell[3]

None == <<"None">>
Some(x) == <<"Some", x>>
IsSome(o) == o[1] = "Some"
Unwrap(o) == o[2]

---------------------------------------------------------------------------
(* u32 arithmetic on 16-bit limbs *)

Limb == 256 * 256

U32(n) == <<n \div Limb, n % Limb>>
U32_MAX == <<Limb - 1, Limb - 1>>

\* x + 1 as a mathematical integer in limb form: <<Limb, 0>> is 2^32
MathSucc(x) == IF x[2] < Limb - 1 THEN <<x[1], x[2] + 1>> ELSE <<x[1] + 1, 0>>

\* x + 1 with the overflow check off: modulo 2^32
WrappingSucc(x) == LET s == MathSucc(x) IN <<s[1] % Limb, s[2]>>

\* 10 * x + d as a mathematical integer in limb form (hi may exceed a limb)
MulAdd10(x, d) ==
    LET lo == 10 * x[2] + d
    IN  <<10 * x[1] + lo \div Limb, lo % Limb>>

---------------------------------------------------------------------------
(* Position *)

NoPosition == <<"NoPosition">>

Put(cells, sq, cell) == [cells EXCEPT ![sq[1]][sq[2]] = cell]

Returned(p) == [ret |-> "ok", pos |-> p, why |-> "returned"]
Panicked(p, why) == [ret |-> "panic", pos |-> p, why |-> why]


---------------------------------------------------------------------------
(* Characters *)

PieceLetters == {"P", "p", "N", "n", "B", "b", "R", "r", "Q", "q", "K", "k"}
Digits18 == {"1", "2", "3", "4", "5", "6", "7", "8"}
Digits09 == {"0", "9"} \cup Digits18
FileLetters == {"a", "b", "c", "d", "e", "f", "g", "h"}

\* the code point of a character (the ones the code does arithmetic on)
Ord(ch) ==
    CASE ch = "a" -> 97  [] ch = "b" -> 98  [] ch = "c" -> 99  [] ch = "d" -> 100
      [] ch = "e" -> 101 [] ch = "f" -> 102 [] ch = "g" -> 103 [] ch = "h" -> 104
      [] ch = "0" -> 48  [] ch = "1" -> 49  [] ch = "2" -> 50  [] ch = "3" -> 51
      [] ch = "4" -> 52  [] ch = "5" -> 53  [] ch = "6" -> 54  [] ch = "7" -> 55
      [] ch = "8" -> 56  [] ch = "9" -> 57

\* char::to_digit(10)
to_digit(ch) == IF ch \in Digits09 THEN Some(Ord(ch) - Ord("0")) ELSE None

---------------------------------------------------------------------------
(* from_fen: the regular expression RE *)

Lit(ch) == [k |-> "lit", class |-> {ch}]
OneOf(class) == [k |-> "one", class |-> class]
PlusOf(class) == [k |-> "plus", class |-> class]

Group(name, alts) == [name |-> name, alts |-> alts]
Sep(ch) == Group("", << <<Lit(ch)>> >>)
RankGroup(name) == Group(name, << <<PlusOf(PieceLetters \cup Digits18)>> >>)

\* the pattern of RE, group by group; "^" and "$" are in Captures
RE ==
    << RankGroup("1"), Sep("/"), RankGroup("2"), Sep("/"),
       RankGroup("3"), Sep("/"), RankGroup("4"), Sep("/"),
       RankGroup("5"), Sep("/"), RankGroup("6"), Sep("/"),
       RankGroup("7"), Sep("/"), RankGroup("8"), Sep(" "),
       Group("side_to_move", << <<OneOf({"w", "b"})>> >>), Sep(" "),
       Group("castling", << <<PlusOf({"K", "Q", "k", "q"})>>, <<Lit("-")>> >>), Sep(" "),
       Group("en_passant", << <<OneOf(FileLetters), OneOf(Digits18)>>, <<Lit("-")>> >>), Sep(" "),
       Group("halfmove_clock", << <<PlusOf(Digits09)>> >>), Sep(" "),
       Group("move_number", << <<PlusOf(Digits09)>> >>) >>

\* the index after the longest run of class characters starting at i
RECURSIVE RunEnd(_, _, _)
RunEnd(text, i, class) ==
    IF i <= Len(text) /\ text[i] \in class THEN RunEnd(text, i + 1, class) ELSE i

\* atoms[k..] matched at i: the index after the match, 0 if there is none.
\* A run is taken whole: in RE every run is followed by a character outside
\* its class or by the end of the text, so no shorter run can match.
RECURSIVE MatchAtoms(_, _, _, _)
MatchAtoms(text, i, atoms, k) ==
    IF k > Len(atoms) THEN i
    ELSE LET a == atoms[k]
             j == IF a.k = "plus"
                  THEN (LET e == RunEnd(text, i, a.class) IN IF e > i THEN e ELSE 0)
                  ELSE IF i <= Len(text) /\ text[i] \in a.class THEN i + 1 ELSE 0
         IN  IF j = 0 THEN 0 ELSE MatchAtoms(text, j, atoms, k + 1)

\* the first alternative that matches at i
RECURSIVE MatchAlts(_, _, _, _)
MatchAlts(text, i, alts, a) ==
    IF a > Len(alts) THEN 0
    ELSE LET j == MatchAtoms(text, i, alts[a], 1)
         IN  IF j # 0 THEN j ELSE MatchAlts(text, i, alts, a + 1)

RECURSIVE MatchGroups(_, _, _, _)
MatchGroups(text, i, g, caps) ==
    IF g > Len(RE)
    THEN [ok |-> i = Len(text) + 1, caps |-> caps]
    ELSE LET j == MatchAlts(text, i, RE[g].alts, 1)
         IN  IF j = 0 THEN [ok |-> FALSE, caps |-> caps]
             ELSE MatchGroups(text, j, g + 1, Append(caps, SubSeq(text, i, j - 1)))

\* RE.captures(fen)
Captures(text) == MatchGroups(text, 1, 1, <<>>)

\* captures.name(name)
Cap(caps, name) == caps[CHOOSE g \in 1 .. Len(RE) : RE[g].name = name]

\* captures[n], n = 1 .. 8: the n-th parenthesized group, a rank description
CapN(caps, n) == Cap(caps, <<"1", "2", "3", "4", "5", "6", "7", "8">>[n])

Contains(text, ch) == \E i \in 1 .. Len(text) : text[i] = ch

---------------------------------------------------------------------------
(* from_fen *)

\* str::parse::<u32>() of a run of decimal digits: Err on a value over u32::MAX
RECURSIVE ParseFrom(_, _, _)
ParseFrom(digits, k, acc) ==
    IF k > Len(digits) THEN [ok |-> TRUE, value |-> acc]
    ELSE LET next == MulAdd10(acc, Unwrap(to_digit(digits[k])))
         IN  IF next[1] >= Limb THEN [ok |-> FALSE, value |-> acc]
             ELSE ParseFrom(digits, k + 1, next)

ParseU32(digits) == ParseFrom(digits, 1, U32(0))

\* a variant of parse_algebraic_coords that counts rows from rank 1
parse_algebraic_coords_RankOneFirst(coords) ==
    LET col == Ord(coords[1]) - Ord("a")
        row == Ord(coords[2]) - Ord("1")
    IN  <<row, col>>

parse_algebraic_coords(coords) ==
    LET col == Ord(coords[1]) - Ord("a")
        row == 7 - (Ord(coords[2]) - Ord("1"))
    IN  <<row, col>>

PieceOfLetter(ch) ==
    CASE ch = "P" -> Piece("Pawn", "White")   [] ch = "p" -> Piece("Pawn", "Black")
      [] ch = "N" -> Piece("Knight", "White") [] ch = "n" -> Piece("Knight", "Black")
      [] ch = "B" -> Piece("Bishop", "White") [] ch = "b" -> Piece("Bishop", "Black")
      [] ch = "R" -> Piece("Rook", "White")   [] ch = "r" -> Piece("Rook", "Black")
      [] ch = "Q" -> Piece("Queen", "White")  [] ch = "q" -> Piece("Queen", "Black")
      [] ch = "K" -> Piece("King", "White")   [] ch = "k" -> Piece("King", "Black")

EmptyBoard == [row \in Rows |-> [col \in Cols |-> Empty]]

\* the inner loop of read_board_data over row_str[k..]: a digit advances col,
\* a letter is stored at cells[row][col]; an index past the row panics
RECURSIVE ReadRow(_, _, _, _, _)
ReadRow(cells, row, row_str, k, col) ==
    IF k > Len(row_str) THEN [ok |-> TRUE, cells |-> cells]
    ELSE LET ch == row_str[k]
             digit == to_digit(ch)
         IN  IF IsSome(digit)
             THEN ReadRow(cells, row, row_str, k + 1, col + Unwrap(digit))
             ELSE IF col \notin Cols
                  THEN [ok |-> FALSE, cells |-> cells]
                  ELSE ReadRow(Put(cells, <<row, col>>, PieceOfLetter(ch)),
                               row, row_str, k + 1, col + 1)

RECURSIVE ReadRows(_, _, _)
ReadRows(cells, row, caps) ==
    IF row > 7 THEN [ok |-> TRUE, cells |-> cells]
    ELSE LET r == ReadRow(cells, row, CapN(caps, row + 1), 1, 0)
         IN  IF r.ok THEN ReadRows(r.cells, row + 1, caps) ELSE r

read_board_data(caps) == ReadRows(EmptyBoard, 0, caps)

from_fen(text) ==
    LET captures == Captures(text)
    IN  IF ~captures.ok
        THEN Panicked(NoPosition, "Invalid FEN (failed to match regex)")
        ELSE
        LET caps == captures.caps
            side == Cap(caps, "side_to_move")
            side_to_move == CASE side = <<"w">> -> "White" [] side = <<"b">> -> "Black"
            halfmove_clock == ParseU32(Cap(caps, "halfmove_clock"))
            castling == Cap(caps, "castling")
            ep == Cap(caps, "en_passant")
            en_passant == IF ep = <<"-">> THEN None ELSE Some(parse_algebraic_coords(ep))
            board == read_board_data(caps)
        IN  IF ~halfmove_clock.ok
            THEN Panicked(NoPosition, "ParseIntError")
            ELSE IF ~board.ok
            THEN Panicked(NoPosition, "index out of bounds")
            ELSE Returned([cells |-> board.cells,
                           side_to_move |-> side_to_move,
                           halfmove_clock |-> halfmove_clock.value,
                           white_can_castle_kingside |-> Contains(castling, "K"),
                           white_can_castle_queenside |-> Contains(castling, "Q"),
                           black_can_castle_kingside |-> Contains(castling, "k"),
                           black_can_castle_queenside |-> Contains(castling, "q"),
                           en_passant |-> en_passant])

---------------------------------------------------------------------------
(* make_move *)

\* lines 120-126: the clock after looking at the destination, overflow check off
HalfmoveAfterDestination(clock, dst_empty) ==
    IF dst_empty THEN WrappingSucc(clock) ELSE U32(0)

\* a variant of EnPassantCapture that empties the destination square itself
EnPassantCapture_AtDestination(cells, en_passant, src, dst) ==
    IF IsSome(en_passant) /\ dst = Unwrap(en_passant)
    THEN Put(cells, dst, Empty)
    ELSE cells

\* a variant of EnPassantCapture that leaves the captured pawn on the board
EnPassantCapture_Nothing(cells, en_passant, src, dst) == cells

\* lines 132-140: the en passant capture of a pawn arriving on dst
EnPassantCapture(cells, en_passant, src, dst) ==
    IF IsSome(en_passant) /\ dst = Unwrap(en_passant)
    THEN Put(cells, <<src[1], dst[2]>>, Empty)
    ELSE cells

\* a variant of Promote that ignores the requested type
Promote_AlwaysQueen(cells, dst, promotion_type, color) ==
    Put(cells, dst, Piece("Queen", color))

\* lines 141-146: promotion of a pawn arriving on dst; promotion_type.unwrap()
\* panics on None
NeedsPromotion(dst) == dst[1] = ROW_1 \/ dst[1] = ROW_8

Promote(cells, dst, promotion_type, color) ==
    Put(cells, dst, Piece(Unwrap(promotion_type), color))

\* a variant of RookRights that flips the right instead of clearing it
RookRights_Toggles(p, src) ==
    IF src[1] = ROW_1
    THEN IF src[2] = COL_A THEN [p EXCEPT !.white_can_castle_queenside = ~@]
         ELSE IF src[2] = COL_H THEN [p EXCEPT !.white_can_castle_kingside = ~@]
         ELSE p
    ELSE IF src[1] = ROW_8
    THEN IF src[2] = COL_A THEN [p EXCEPT !.black_can_castle_queenside = ~@]
         ELSE IF src[2] = COL_H THEN [p EXCEPT !.black_can_castle_kingside = ~@]
         ELSE p
    ELSE p

\* a variant of RookRights that looks at the row only
RookRights_WholeRow(p, src) ==
    IF src[1] = ROW_1
    THEN [p EXCEPT !.white_can_castle_queenside = FALSE,
                   !.white_can_castle_kingside = FALSE]
    ELSE IF src[1] = ROW_8
    THEN [p EXCEPT !.black_can_castle_queenside = FALSE,
                   !.black_can_castle_kingside = FALSE]
    ELSE p

\* lines 148-162: a rook leaving src
RookRights(p, src) ==
    IF src[1] = ROW_1
    THEN IF src[2] = COL_A THEN [p EXCEPT !.white_can_castle_queenside = FALSE]
         ELSE IF src[2] = COL_H THEN [p EXCEPT !.white_can_castle_kingside = FALSE]
         ELSE p
    ELSE IF src[1] = ROW_8
    THEN IF src[2] = COL_A THEN [p EXCEPT !.black_can_castle_queenside = FALSE]
         ELSE IF src[2] = COL_H THEN [p EXCEPT !.black_can_castle_kingside = FALSE]
         ELSE p
    ELSE p

\* lines 164-173: a king of this color moving
KingRights(p, color) ==
    CASE color = "White" -> [p EXCEPT !.white_can_castle_kingside = FALSE,
                                      !.white_can_castle_queenside = FALSE]
      [] color = "Black" -> [p EXCEPT !.black_can_castle_kingside = FALSE,
                                      !.black_can_castle_queenside = FALSE]

\* a variant of CastleRook that copies the rook and leaves it on its corner
CastleRook_LeavesRook(cells, src, dst) ==
    IF src[2] = COL_E
    THEN IF dst[2] = COL_G
         THEN Put(cells, <<src[1], COL_F>>, cells[src[1]][COL_H])
         ELSE IF dst[2] = COL_C
         THEN Put(cells, <<src[1], COL_D>>, cells[src[1]][COL_A])
         ELSE cells
    ELSE cells

\* lines 174-187: the rook of a castling king (king already on dst)
CastleRook(cells, src, dst) ==
    IF src[2] = COL_E
    THEN IF dst[2] = COL_G
         THEN LET rook == cells[src[1]][COL_H]
              IN  Put(Put(cells, <<src[1], COL_H>>, Empty), <<src[1], COL_F>>, rook)
         ELSE IF src[2] = COL_E /\ dst[2] = COL_C
         THEN LET rook == cells[src[1]][COL_A]
              IN  Put(Put(cells, <<src[1], COL_A>>, Empty), <<src[1], COL_D>>, rook)
         ELSE cells
    ELSE cells

\* a variant of NewEnPassant with the two directions exchanged
NewEnPassant_WrongSide(piece_type, src, dst) ==
    IF piece_type = "Pawn"
    THEN IF src[1] = ROW_2 /\ dst[1] = ROW_4 THEN Some(<<dst[1] - 1, dst[2]>>)
         ELSE IF src[1] = ROW_7 /\ dst[1] = ROW_5 THEN Some(<<dst[1] + 1, dst[2]>>)
         ELSE None
    ELSE None

\* a variant of NewEnPassant that does not look at the piece type
NewEnPassant_AnyPiece(piece_type, src, dst) ==
    IF src[1] = ROW_2 /\ dst[1] = ROW_4 THEN Some(<<dst[1] + 1, dst[2]>>)
    ELSE IF src[1] = ROW_7 /\ dst[1] = ROW_5 THEN Some(<<dst[1] - 1, dst[2]>>)
    ELSE None

\* lines 191-205: the en passant target after the move
NewEnPassant(piece_type, src, dst) ==
    IF piece_type = "Pawn"
    THEN IF src[1] = ROW_2 /\ dst[1] = ROW_4 THEN Some(<<dst[1] + 1, dst[2]>>)
         ELSE IF src[1] = ROW_7 /\ dst[1] = ROW_5 THEN Some(<<dst[1] - 1, dst[2]>>)
         ELSE None
    ELSE None

\* a variant of PawnArm that looks for the promotion type before it resets
\* the clock and captures en passant
PawnArm_UnwrapsFirst(p, src, dst, promotion_type, color) ==
    LET p1 == [p EXCEPT !.halfmove_clock = U32(0)]
        p2 == [p1 EXCEPT !.cells = EnPassantCapture(p1.cells, p1.en_passant, src, dst)]
    IN  IF NeedsPromotion(dst)
        THEN IF IsSome(promotion_type)
             THEN Returned([p2 EXCEPT !.cells = Promote(p2.cells, dst, promotion_type, color)])
             ELSE Panicked(p, "unwrap on None")
        ELSE Returned(p2)

\* lines 130-147: the Pawn arm
PawnArm(p, src, dst, promotion_type, color) ==
    LET p1 == [p EXCEPT !.halfmove_clock = U32(0)]
        p2 == [p1 EXCEPT !.cells = EnPassantCapture(p1.cells, p1.en_passant, src, dst)]
    IN  IF NeedsPromotion(dst)
        THEN IF IsSome(promotion_type)
             THEN Returned([p2 EXCEPT !.cells = Promote(p2.cells, dst, promotion_type, color)])
             ELSE Panicked(p2, "unwrap on None")
        ELSE Returned(p2)

\* a variant of EmptySource that returns instead of panicking
EmptySource_Returns(p) == Returned(p)

\* line 207
EmptySource(p) == Panicked(p, "Move from empty square")

\* a variant of FlipSide that always hands the move to Black
FlipSide_BlackToMove(p) == [p EXCEPT !.side_to_move = "Black"]

\* line 209
FlipSide(p) == [p EXCEPT !.side_to_move = opposite_color(p.side_to_move)]

\* make_move(src, dst, promotion_type) on Position p.  overflow is what the
\* build does when halfmove_clock + 1 overflows: "panic" (overflow checks on)
\* or "wrap" (off).  A panicking call leaves the Position as mutated so far.
make_move(p, src, dst, promotion_type, overflow) ==
    LET src_cell == p.cells[src[1]][src[2]]
        cells1 == Put(p.cells, src, Empty)
        dst_empty == cells1[dst[1]][dst[2]] = Empty
        p1 == [p EXCEPT !.cells = cells1]
        p2 == [p1 EXCEPT !.halfmove_clock = HalfmoveAfterDestination(p.halfmove_clock, dst_empty)]
        p3 == [p2 EXCEPT !.cells = Put(cells1, dst, src_cell)]
    IN  IF dst_empty /\ p.halfmove_clock = U32_MAX /\ overflow = "panic"
        THEN Panicked(p1, "attempt to add with overflow")
        ELSE IF ~IsPiece(src_cell)
        THEN EmptySource(p3)
        ELSE
        LET piece_type == TypeOf(src_cell)
            color == ColorOf(src_cell)
            arm == CASE piece_type = "Pawn" -> PawnArm(p3, src, dst, promotion_type, color)
                     [] piece_type = "Rook" -> Returned(RookRights(p3, src))
                     [] piece_type = "King" ->
                            LET p4 == KingRights(p3, color)
                            IN  Returned([p4 EXCEPT !.cells = CastleRook(p4.cells, src, dst)])
                     [] OTHER -> Returned(p3)
        IN  IF arm.ret = "panic" THEN arm
            ELSE Returned(FlipSide([arm.pos EXCEPT
                                      !.en_passant = NewEnPassant(piece_type, src, dst)]))

---------------------------------------------------------------------------
(* FEN texts *)

RECURSIVE Join(_, _)
Join(fields, sep) ==
    IF Len(fields) = 0 THEN <<>>
    ELSE IF Len(fields) = 1 THEN fields[1]
    ELSE fields[1] \o <<sep>> \o Join(Tail(fields), sep)

\* eight rank descriptions and the five other fields as one text
FenText(ranks, rest) == Join(ranks, "/") \o <<" ">> \o Join(rest, " ")

R8 == <<"8">>
Kk7 == <<"k", "7">>
KK7 == <<"K", "7">>
Dash == <<"-">>
N0 == <<"0">>
N1 == <<"1">>
W == <<"w">>
B == <<"b">>

STARTPOS_FEN ==
    FenText(<< <<"r", "n", "b", "q", "k", "b", "n", "r">>,
               <<"p", "p", "p", "p", "p", "p", "p", "p">>, R8, R8, R8, R8,
               <<"P", "P", "P", "P", "P", "P", "P", "P">>,
               <<"R", "N", "B", "Q", "K", "B", "N", "R">> >>,
            <<W, <<"K", "Q", "k", "q">>, Dash, N0, N1>>)

\* the starting texts of the tests of position.rs
TestFens ==
    { STARTPOS_FEN,
      FenText(<<Kk7, <<"p", "7">>, R8, <<"1", "P", "6">>, R8, R8, R8, KK7>>,
              <<B, Dash, Dash, N0, N1>>),
      FenText(<<Kk7, R8, R8, R8, <<"1", "p", "6">>, R8, <<"P", "7">>, KK7>>,
              <<W, Dash, Dash, N0, N1>>),
      FenText(<<Kk7, <<"4", "p", "3">>, R8, <<"3", "P", "p", "3">>, R8, R8, R8, KK7>>,
              <<B, Dash, Dash, N0, N1>>),
      FenText(<<Kk7, R8, R8, R8, R8, R8, R8, <<"4", "K", "2", "R">> >>,
              <<W, <<"K">>, Dash, N0, N1>>),
      FenText(<< <<"4", "k", "2", "r">>, R8, R8, R8, R8, R8, R8, KK7>>,
              <<B, <<"k">>, Dash, N0, N1>>),
      FenText(<<Kk7, R8, R8, R8, R8, R8, R8, <<"R", "3", "K", "3">> >>,
              <<W, <<"K">>, Dash, N0, N1>>),
      FenText(<< <<"r", "3", "k", "3">>, R8, R8, R8, R8, R8, R8, KK7>>,
              <<B, <<"k">>, Dash, N0, N1>>),
      FenText(<<Kk7, <<"4", "P", "3">>, R8, R8, R8, R8, R8, KK7>>,
              <<W, Dash, Dash, N0, N1>>) }

\* further well-formed texts: all four rights with rooks and kings at home, an
\* en passant target that comes from the text, a black pawn about to promote,
\* a halfmove clock of u32::MAX, and rooks on the pawns' home ranks
ProbeFens ==
    { FenText(<< <<"r", "3", "k", "2", "r">>, R8, <<"1", "N", "6">>, R8, R8, R8, R8,
                 <<"R", "3", "K", "2", "R">> >>,
              <<W, <<"K", "Q", "k", "q">>, Dash, <<"5">>, N1>>),
      FenText(<<Kk7, R8, <<"1", "P", "6">>, <<"p", "P", "6">>, R8, R8, R8, KK7>>,
              <<W, Dash, <<"a", "6">>, <<"7">>, N1>>),
      FenText(<<Kk7, <<"1", "P", "6">>, R8, R8, R8, R8, R8, KK7>>,
              <<W, Dash, <<"a", "8">>, <<"2">>, N1>>),
      FenText(<<Kk7, R8, R8, R8, R8, R8, <<"4", "p", "3">>, <<"K", "2", "N", "4">> >>,
              <<B, Dash, Dash, <<"3">>, N1>>),
      FenText(<<Kk7, R8, R8, R8, R8, R8, <<"P", "7">>, <<"K", "6", "N">> >>,
              <<W, Dash, Dash,
                <<"4", "2", "9", "4", "9", "6", "7", "2", "9", "5">>, N1>>),
      FenText(<<Kk7, <<"7", "r">>, R8, R8, R8, R8, <<"R", "7">>, KK7>>,
              <<W, Dash, Dash, <<"9">>, N1>>) }

GameFens == TestFens \cup ProbeFens

---------------------------------------------------------------------------
(* The Position's owner: construction, then moves *)

NoCall ==
    [op |-> "none", src |-> <<0, 0>>, dst |-> <<0, 0>>, promotion_type |-> None,
     pre |-> NoPosition, ret |-> "ok", why |-> ""]

UciIdle ==
    /\ mpc = "start"
    /\ rx_alive = FALSE
    /\ chan = <<>>
    /\ out = <<>>
    /\ handled = <<>>

InitPosition(texts) ==
    /\ fen \in texts
    /\ pos = NoPosition
    /\ st = "new"
    /\ call = NoCall
    /\ prev = NoCall
    /\ nmoves = 0

\* Position::from_fen(fen)
FromFen ==
    /\ st = "new"
    /\ LET r == from_fen(fen)
       IN  /\ pos' = r.pos
           /\ st' = IF r.ret = "ok" THEN "ready" ELSE "panicked"
           /\ call' = [NoCall EXCEPT !.op = "from_fen", !.ret = r.ret, !.why = r.why]
    /\ prev' = call
    /\ UNCHANGED <<fen, nmoves>>
    /\ UNCHANGED ucivars

\* pos.make_move(src, dst, promotion_type)
MakeMove(src, dst, promotion_type) ==
    /\ st = "ready"
    /\ \E overflow \in {"panic", "wrap"} :
         LET r == make_move(pos, src, dst, promotion_type, overflow)
         IN  /\ pos' = r.pos
             /\ st' = IF r.ret = "ok" THEN "ready" ELSE "panicked"
             /\ call' = [op |-> "make_move", src |-> src, dst |-> dst,
                         promotion_type |-> promotion_type, pre |-> pos,
                         ret |-> r.ret, why |-> r.why]
    /\ prev' = call
    /\ nmoves' = nmoves + 1
    /\ UNCHANGED fen
    /\ UNCHANGED ucivars

Promotions == {None, Some("Knight"), Some("Queen")}

\* the moves of the tests of position.rs
TestMoves ==
    { <<<<ROW_2, COL_E>>, <<ROW_4, COL_E>>>>, <<<<ROW_7, COL_E>>, <<ROW_5, COL_E>>>>,
      <<<<ROW_1, COL_G>>, <<ROW_3, COL_F>>>>, <<<<ROW_8, COL_B>>, <<ROW_6, COL_C>>>>,
      <<<<ROW_1, COL_F>>, <<ROW_4, COL_C>>>>, <<<<ROW_8, COL_F>>, <<ROW_5, COL_C>>>>,
      <<<<ROW_7, COL_A>>, <<ROW_5, COL_A>>>>, <<<<ROW_5, COL_B>>, <<ROW_6, COL_A>>>>,
      <<<<ROW_2, COL_A>>, <<ROW_4, COL_A>>>>, <<<<ROW_4, COL_B>>, <<ROW_3, COL_A>>>>,
      <<<<ROW_7, COL_E>>, <<ROW_6, COL_E>>>>, <<<<ROW_5, COL_D>>, <<ROW_6, COL_E>>>>,
      <<<<ROW_1, COL_E>>, <<ROW_1, COL_G>>>>, <<<<ROW_8, COL_E>>, <<ROW_8, COL_G>>>>,
      <<<<ROW_1, COL_E>>, <<ROW_1, COL_C>>>>, <<<<ROW_8, COL_E>>, <<ROW_8, COL_C>>>>,
      <<<<ROW_7, COL_E>>, <<ROW_8, COL_E>>>> }

\* further moves: rooks leaving and capturing on their home squares, king and
\* knight steps, pawn steps next to a two-square advance, a promotion by capture
ProbeMoves ==
    { <<<<ROW_1, COL_A>>, <<ROW_8, COL_A>>>>, <<<<ROW_8, COL_H>>, <<ROW_1, COL_H>>>>,
      <<<<ROW_1, COL_H>>, <<ROW_1, COL_G>>>>, <<<<ROW_8, COL_A>>, <<ROW_8, COL_B>>>>,
      <<<<ROW_6, COL_B>>, <<ROW_8, COL_A>>>>, <<<<ROW_1, COL_E>>, <<ROW_2, COL_E>>>>,
      <<<<ROW_8, COL_A>>, <<ROW_7, COL_A>>>>, <<<<ROW_1, COL_A>>, <<ROW_2, COL_A>>>>,
      <<<<ROW_5, COL_B>>, <<ROW_6, COL_B>>>>, <<<<ROW_4, COL_B>>, <<ROW_3, COL_B>>>>,
      <<<<ROW_2, COL_E>>, <<ROW_1, COL_D>>>>, <<<<ROW_4, COL_E>>, <<ROW_5, COL_E>>>>,
      <<<<ROW_1, COL_H>>, <<ROW_3, COL_G>>>>, <<<<ROW_3, COL_G>>, <<ROW_1, COL_H>>>> }

Moves == TestMoves \cup ProbeMoves

\* a game: moves of Moves, MaxMoves of them at most
PlayMove ==
    /\ nmoves < MaxMoves
    /\ \E m \in Moves : \E promotion_type \in Promotions :
         MakeMove(m[1], m[2], promotion_type)

\* a single call with any two squares of the board
AnyMove ==
    /\ nmoves = 0
    /\ \E src \in Squares : \E dst \in Squares : \E promotion_type \in Promotions :
         MakeMove(src, dst, promotion_type)

Init == InitPosition(GameFens) /\ UciIdle
Next == FromFen \/ PlayMove
Spec == Init /\ [][Next]_vars

NextCall == FromFen \/ AnyMove
SpecCall == Init /\ [][NextCall]_vars

---------------------------------------------------------------------------
(* Properties of make_move.  They read the last call: its arguments, the  *)
(* Position before it (call.pre) and the Position now (pos).              *)

IsMove(c) == c.op = "make_move"
Moved(c) == IsMove(c) /\ c.ret = "ok"
SrcCell(c) == c.pre.cells[c.src[1]][c.src[2]]
DstCell(c) == c.pre.cells[c.dst[1]][c.dst[2]]
MovedType(c, piece_type) == IsPiece(SrcCell(c)) /\ TypeOf(SrcCell(c)) = piece_type

Rights(p) ==
    <<p.white_can_castle_kingside, p.white_can_castle_queenside,
      p.black_can_castle_kingside, p.black_can_castle_queenside>>

\* a pawn's two-square advance: White from rank 2 to rank 4, Black from rank 7
\* to rank 5, on its file
TwoSquareAdvance(c) ==
    /\ Moved(c)
    /\ MovedType(c, "Pawn")
    /\ c.src[2] = c.dst[2]
    /\ \/ ColorOf(SrcCell(c)) = "White" /\ c.src[1] = ROW_2 /\ c.dst[1] = ROW_4
       \/ ColorOf(SrcCell(c)) = "Black" /\ c.src[1] = ROW_7 /\ c.dst[1] = ROW_5

\* the square between source and destination
SkippedSquare(c) == <<(c.src[1] + c.dst[1]) \div 2, c.src[2]>>

\* C1: after a pawn's two-square advance en_passant is exactly the skipped
\* square (same file, the rank between source and destination).  The make_move
\* that follows it and returns clears that target, whether or not it captured
\* en passant: en_passant is then none, unless that move is itself a
\* two-square advance, which records its own skipped square, another one.
C1_EnPassantOneMove ==
    /\ TwoSquareAdvance(call) => pos.en_passant = Some(SkippedSquare(call))
    /\ TwoSquareAdvance(prev) /\ Moved(call) =>
         /\ call.pre.en_passant = Some(SkippedSquare(prev))
         /\ pos.en_passant # Some(SkippedSquare(prev))
         /\ pos.en_passant = IF TwoSquareAdvance(call)
                             THEN Some(SkippedSquare(call)) ELSE None

\* a two-square advance answered by a capture en passant
C1_Witness ==
    /\ TwoSquareAdvance(prev)
    /\ Moved(call)
    /\ MovedType(call, "Pawn")
    /\ call.dst = SkippedSquare(prev)
    /\ pos.cells[prev.dst[1]][prev.dst[2]] = Empty
    /\ pos.en_passant = None

OntoTarget(c) == c.pre.en_passant = Some(c.dst)
Diagonal(c) == c.src[1] # c.dst[1] /\ c.src[2] # c.dst[2]

\* C2 as stated: a pawn moving onto the recorded en passant target removes the
\* pawn on (source row, destination column) and stands on the destination; a
\* pawn moving onto any other square leaves the cell at (source row,
\* destination column) as it was.
C2_AsStated ==
    Moved(call) /\ MovedType(call, "Pawn") =>
        IF OntoTarget(call)
        THEN /\ pos.cells[call.src[1]][call.dst[2]] = Empty
             /\ pos.cells[call.dst[1]][call.dst[2]] = SrcCell(call)
        ELSE pos.cells[call.src[1]][call.dst[2]] =
                 call.pre.cells[call.src[1]][call.dst[2]]

\* C2, amended: the same for a pawn that changes both row and column.  The
\* destination holds the moving pawn, or the piece it promotes to on the first
\* or eighth rank.
C2_Diagonal ==
    Moved(call) /\ MovedType(call, "Pawn") /\ Diagonal(call) =>
        IF OntoTarget(call)
        THEN /\ pos.cells[call.src[1]][call.dst[2]] = Empty
             /\ pos.cells[call.dst[1]][call.dst[2]] =
                    IF NeedsPromotion(call.dst)
                    THEN Piece(Unwrap(call.promotion_type), ColorOf(SrcCell(call)))
                    ELSE SrcCell(call)
        ELSE pos.cells[call.src[1]][call.dst[2]] =
                 call.pre.cells[call.src[1]][call.dst[2]]

\* a pawn captures en passant a pawn of the other colour standing beside it
C2_Witness ==
    /\ Moved(call)
    /\ MovedType(call, "Pawn")
    /\ Diagonal(call)
    /\ OntoTarget(call)
    /\ call.pre.cells[call.src[1]][call.dst[2]] =
           Piece("Pawn", opposite_color(ColorOf(SrcCell(call))))
    /\ pos.cells[call.src[1]][call.dst[2]] = Empty
    /\ pos.cells[call.dst[1]][call.dst[2]] = SrcCell(call)

\* C3: a king moved from the e-file to the g-file (c-file) of its row: the king
\* stands on g (c), what stood on h (a) stands on f (d), e and h (a) are Empty,
\* both rights of the king's colour are false, the other colour's unchanged.
C3_Castling ==
    /\ Moved(call)
    /\ MovedType(call, "King")
    /\ call.src[2] = COL_E
    /\ call.dst[1] = call.src[1]
    /\ call.dst[2] \in {COL_G, COL_C}
    => LET row == call.src[1]
           corner == IF call.dst[2] = COL_G THEN COL_H ELSE COL_A
           inner == IF call.dst[2] = COL_G THEN COL_F ELSE COL_D
           white == ColorOf(SrcCell(call)) = "White"
       IN  /\ pos.cells[row][call.dst[2]] = SrcCell(call)
           /\ pos.cells[row][inner] = call.pre.cells[row][corner]
           /\ pos.cells[row][COL_E] = Empty
           /\ pos.cells[row][corner] = Empty
           /\ Rights(pos) =
                  IF white
                  THEN <<FALSE, FALSE, call.pre.black_can_castle_kingside,
                         call.pre.black_can_castle_queenside>>
                  ELSE <<call.pre.white_can_castle_kingside,
                         call.pre.white_can_castle_queenside, FALSE, FALSE>>

\* Black castles queenside with its rook on a8, holding both rights before
C3_Witness ==
    /\ Moved(call)
    /\ SrcCell(call) = Piece("King", "Black")
    /\ call.src = <<ROW_8, COL_E>>
    /\ call.dst = <<ROW_8, COL_C>>
    /\ call.pre.cells[ROW_8][COL_A] = Piece("Rook", "Black")
    /\ Rights(call.pre) = <<TRUE, TRUE, TRUE, TRUE>>
    /\ pos.cells[ROW_8][COL_D] = Piece("Rook", "Black")
    /\ Rights(pos) = <<TRUE, TRUE, FALSE, FALSE>>

\* C4: after a make_move that returns, between two different squares, the
\* halfmove clock is the previous value plus 1 if the destination was empty and
\* the moving piece is not a pawn, and 0 if the destination was occupied or the
\* moving piece is a pawn.
C4_HalfmoveClock ==
    Moved(call) /\ call.src # call.dst =>
        pos.halfmove_clock =
            IF DstCell(call) = Empty /\ ~MovedType(call, "Pawn")
            THEN MathSucc(call.pre.halfmove_clock)
            ELSE U32(0)

\* C5: a step of the Position's owner never turns a castling right from false
\* to true.
C5_RightsOnlyCleared ==
    [][st = "ready" =>
         \A i \in 1 .. 4 : Rights(pos')[i] => Rights(pos)[i]]_vars

\* a right that was true before the call is false after it, the others kept
C5_Witness ==
    /\ Moved(call)
    /\ MovedType(call, "Rook")
    /\ Rights(call.pre) = <<TRUE, TRUE, TRUE, TRUE>>
    /\ Rights(pos) = <<TRUE, FALSE, TRUE, TRUE>>

\* C6: a pawn moved onto row 7 or row 0: with no promotion type the call
\* fails; with one, the call that returns leaves Piece(promotion_type, the
\* pawn's colour) on the destination.
C6_Promotion ==
    IsMove(call) /\ MovedType(call, "Pawn") /\ call.dst[1] \in {ROW_1, ROW_8} =>
        IF call.promotion_type = None
        THEN call.ret = "panic"
        ELSE call.ret = "ok" =>
                 pos.cells[call.dst[1]][call.dst[2]] =
                     Piece(Unwrap(call.promotion_type), ColorOf(SrcCell(call)))

\* a black pawn promotes to a knight by capturing on the first rank
C6_Witness ==
    /\ Moved(call)
    /\ SrcCell(call) = Piece("Pawn", "Black")
    /\ call.src = <<ROW_2, COL_E>>
    /\ call.dst = <<ROW_1, COL_D>>
    /\ IsPiece(DstCell(call))
    /\ call.promotion_type = Some("Knight")
    /\ pos.cells[call.dst[1]][call.dst[2]] = Piece("Knight", "Black")

\* C7: make_move from an Empty source cell never returns, whatever the
\* destination and the promotion argument.
C7_EmptySourceFails ==
    IsMove(call) /\ SrcCell(call) = Empty => call.ret = "panic"

\* a call from an empty square onto an occupied one, with a promotion type
C7_Witness ==
    /\ IsMove(call)
    /\ SrcCell(call) = Empty
    /\ IsPiece(DstCell(call))
    /\ call.promotion_type = Some("Queen")
    /\ call.ret = "panic"
    /\ call.why = "Move from empty square"

\* the right a rook leaving sq gives up: its index in Rights, 0 if none
CornerRight(sq) ==
    CASE sq = <<ROW_1, COL_H>> -> 1
      [] sq = <<ROW_1, COL_A>> -> 2
      [] sq = <<ROW_8, COL_H>> -> 3
      [] sq = <<ROW_8, COL_A>> -> 4
      [] OTHER -> 0

\* C8: the rights a make_move clears depend only on the moving piece and its
\* source square: a rook leaving a1, h1, a8 or h8 clears that corner's right
\* and no other, a rook leaving another square clears none, a king clears the
\* two of its colour, and any other piece leaves all four as they were,
\* whatever stands on the destination.
C8_RightsBySource ==
    Moved(call) =>
        LET before == Rights(call.pre)
            after == Rights(pos)
        IN  /\ MovedType(call, "Rook") =>
                 \A i \in 1 .. 4 :
                     after[i] = (before[i] /\ i # CornerRight(call.src))
            /\ MovedType(call, "King") =>
                 \A i \in 1 .. 4 :
                     after[i] = (before[i] /\
                                 (i \in {1, 2}) # (ColorOf(SrcCell(call)) = "White"))
            /\ ~MovedType(call, "Rook") /\ ~MovedType(call, "King") => after = before

\* a knight captures the rook on a8 and Black keeps its queenside right
C8_Witness ==
    /\ Moved(call)
    /\ MovedType(call, "Knight")
    /\ call.dst = <<ROW_8, COL_A>>
    /\ DstCell(call) = Piece("Rook", "Black")
    /\ call.pre.black_can_castle_queenside
    /\ pos.black_can_castle_queenside

---------------------------------------------------------------------------
(* from_fen on texts of every kind *)

RankAlphabet == {"k", "1", "6", "7", "8", "x"}

\* the texts over RankAlphabet of MaxRankLen characters at most
RankTexts == UNION {[1 .. n -> RankAlphabet] : n \in 0 .. MaxRankLen}

\* a text whose rank description number slot is rank
FenWithRank(slot, rank) ==
    FenText([<<Kk7, R8, R8, R8, R8, R8, R8, KK7>> EXCEPT ![slot] = rank],
            <<W, Dash, Dash, N0, N1>>)

\* texts that break the grammar elsewhere: seven ranks, nine ranks, a dash
\* after castling letters, a rank digit 9 in the en passant square, a missing
\* move number, a trailing space, a side that is no colour, a halfmove clock
\* of 2^32, the empty text
OtherFens ==
    { FenText(<<Kk7, R8, R8, R8, R8, R8, KK7>>, <<W, Dash, Dash, N0, N1>>),
      Join(<<Kk7, R8, R8, R8, R8, R8, R8, R8, KK7>>, "/")
          \o <<" ">> \o Join(<<W, Dash, Dash, N0, N1>>, " "),
      FenText(<<Kk7, R8, R8, R8, R8, R8, R8, KK7>>,
              <<W, <<"K", "Q", "-">>, Dash, N0, N1>>),
      FenText(<<Kk7, R8, R8, R8, R8, R8, R8, KK7>>,
              <<W, Dash, <<"a", "9">>, N0, N1>>),
      FenText(<<Kk7, R8, R8, R8, R8, R8, R8, KK7>>, <<W, Dash, Dash, N0>>),
      FenText(<<Kk7, R8, R8, R8, R8, R8, R8, KK7>>, <<W, Dash, Dash, N0, N1>>)
          \o <<" ">>,
      FenText(<<Kk7, R8, R8, R8, R8, R8, R8, KK7>>, <<<<"x">>, Dash, Dash, N0, N1>>),
      FenText(<<Kk7, R8, R8, R8, R8, R8, R8, KK7>>,
              <<W, Dash, Dash,
                <<"4", "2", "9", "4", "9", "6", "7", "2", "9", "6">>, N1>>),
      <<>> }

FenTexts ==
    GameFens \cup OtherFens
        \cup {FenWithRank(slot, rank) : slot \in {1, 8}, rank \in RankTexts}

\* a variant of Position_new that starts from a board without castling rights
Position_new_NoRights ==
    from_fen(FenText(<< <<"r", "n", "b", "q", "k", "b", "n", "r">>,
                        <<"p", "p", "p", "p", "p", "p", "p", "p">>, R8, R8, R8, R8,
                        <<"P", "P", "P", "P", "P", "P", "P", "P">>,
                        <<"R", "N", "B", "Q", "K", "B", "N", "R">> >>,
                     <<W, Dash, Dash, N0, N1>>))

\* Position::new()
Position_new == from_fen(STARTPOS_FEN)

\* let pos = Position::new()
PositionNew ==
    /\ st = "new"
    /\ LET r == Position_new
       IN  /\ pos' = r.pos
           /\ st' = IF r.ret = "ok" THEN "ready" ELSE "panicked"
           /\ call' = [NoCall EXCEPT !.op = "new", !.ret = r.ret, !.why = r.why]
    /\ prev' = call
    /\ UNCHANGED <<fen, nmoves>>
    /\ UNCHANGED ucivars

InitFen == InitPosition(FenTexts) /\ UciIdle
NextFen == FromFen \/ PositionNew
SpecFen == InitFen /\ [][NextFen]_vars

\* the number of files a rank description describes
RECURSIVE FileCount(_)
FileCount(rank) ==
    IF Len(rank) = 0 THEN 0
    ELSE (IF Head(rank) \in Digits09 THEN Ord(Head(rank)) - Ord("0") ELSE 1)
             + FileCount(Tail(rank))

\* the text breaks the grammar, or one of its ranks does not describe 8 files
Malformed(text) ==
    LET captures == Captures(text)
    IN  \/ ~captures.ok
        \/ \E n \in 1 .. 8 : FileCount(CapN(captures.caps, n)) # 8

\* C9: from_fen rejects every text that does not match the grammar and every
\* text in which some rank description does not describe exactly 8 files.
C9_MalformedRejected ==
    call.op = "from_fen" /\ Malformed(fen) => call.ret = "panic"

\* the pieces of a back rank, from the a-file to the h-file
BackRank == <<"Rook", "Knight", "Bishop", "Queen", "King", "Bishop", "Knight", "Rook">>

\* the standard initial position: rank 8 on row 0, rank 1 on row 7
StandardStart ==
    [cells |-> [row \in Rows |-> [col \in Cols |->
                   CASE row = 0 -> Piece(BackRank[col + 1], "Black")
                     [] row = 1 -> Piece("Pawn", "Black")
                     [] row = 6 -> Piece("Pawn", "White")
                     [] row = 7 -> Piece(BackRank[col + 1], "White")
                     [] OTHER -> Empty]],
     side_to_move |-> "White",
     halfmove_clock |-> U32(0),
     white_can_castle_kingside |-> TRUE,
     white_can_castle_queenside |-> TRUE,
     black_can_castle_kingside |-> TRUE,
     black_can_castle_queenside |-> TRUE,
     en_passant |-> None]

\* C14: from_fen on the canonical starting-position text returns the Position
\* that Position::new() returns, and both are the standard initial position:
\* rank 8 on row 0, rank 1 on row 7, White to move, all four castling rights,
\* no en passant target, halfmove clock 0.
C14_NewEqualsStartpos ==
    /\ call.op = "from_fen" /\ fen = STARTPOS_FEN =>
          /\ call.ret = "ok"
          /\ Position_new.ret = "ok"
          /\ pos = Position_new.pos
          /\ pos = StandardStart
    /\ call.op = "new" =>
          /\ call.ret = "ok"
          /\ pos = StandardStart

\* the canonical text has been decoded: kings on e8 and e1, as new() has them
C14_Witness ==
    /\ call.op = "from_fen"
    /\ fen = STARTPOS_FEN
    /\ pos = Position_new.pos
    /\ pos.cells[ROW_8][COL_E] = Piece("King", "Black")
    /\ pos.cells[ROW_1][COL_E] = Piece("King", "White")
    /\ pos.cells[ROW_2][COL_A] = Piece("Pawn", "White")

---------------------------------------------------------------------------
(* main.rs and engine_thread_manager.rs *)

\* an input line is a sequence of items: words and runs of whitespace
Whitespace == {" ", "\t", "\n"}

\* str::split_whitespace
RECURSIVE split_whitespace(_)
split_whitespace(line) ==
    IF Len(line) = 0 THEN <<>>
    ELSE IF Head(line) \in Whitespace THEN split_whitespace(Tail(line))
    ELSE <<Head(line)>> \o split_whitespace(Tail(line))

\* tx.send(message): never blocks; Err when the Receiver is gone
send(queue, receiver_alive, message) ==
    IF receiver_alive
    THEN [ok |-> TRUE, chan |-> Append(queue, message)]
    ELSE [ok |-> FALSE, chan |-> queue]

\* tx.send(message).expect("Error sending message") in cmd_isready,
\* cmd_ponderhit and cmd_stop
SendExpect(message) ==
    LET r == send(chan, rx_alive, message)
    IN  /\ chan' = r.chan
        /\ mpc' = IF r.ok THEN "loop" ELSE "panicked"
        /\ out' = out

\* a variant of identify that confirms readiness before identifying itself
identify_ConfirmsFirst ==
    /\ out' = out \o <<"uciok", "id name farce", "id author Kef Schecter">>
    /\ UNCHANGED <<mpc, chan>>

\* identify()
identify ==
    /\ out' = out \o <<"id name farce", "id author Kef Schecter", "uciok">>
    /\ UNCHANGED <<mpc, chan>>

\* cmd_go, cmd_position, cmd_setoption: empty bodies
Placeholder == UNCHANGED <<mpc, chan, out>>

\* EngineThreadManager::new(): mpsc::channel() makes both ends; tx goes into
\* the manager; no thread is created to take rx, which is dropped when new()
\* returns
new ==
    LET created == [rx_alive |-> TRUE, chan |-> <<>>]
    IN  [created EXCEPT !.rx_alive = FALSE]

\* let engine_mgr = EngineThreadManager::new() in main()
EngineThreadManagerNew ==
    /\ mpc = "start"
    /\ mpc' = "loop"
    /\ rx_alive' = new.rx_alive
    /\ chan' = new.chan
    /\ UNCHANGED <<out, handled>>
    /\ UNCHANGED posvars

\* the words main() matches the leading token against
Commands ==
    {"debug", "go", "isready", "ponderhit", "position", "quit", "register",
     "setoption", "stop", "uci", "ucinewgame"}

\* a variant of tokens_next that goes on to the first word of the line that
\* is a command
RECURSIVE tokens_next_SkipsUnknown(_)
tokens_next_SkipsUnknown(tokens) ==
    IF Len(tokens) = 0 THEN None
    ELSE IF Head(tokens) \in Commands THEN Some(Head(tokens))
    ELSE tokens_next_SkipsUnknown(Tail(tokens))

\* tokens.next() on the fresh iterator: the leading token of the line
tokens_next(tokens) == IF Len(tokens) = 0 THEN None ELSE Some(Head(tokens))

\* one pass of the loop of main() on an input line
MainLoop(line) ==
    /\ mpc = "loop"
    /\ handled' = Append(handled, line)
    /\ LET tokens == split_whitespace(line)
           first == tokens_next(tokens)
       IN  CASE first = None -> UNCHANGED <<mpc, chan, out>>
             [] first = Some("debug") -> UNCHANGED <<mpc, chan, out>>
             [] first = Some("go") -> Placeholder
             [] first = Some("isready") -> SendExpect("IsReady")
             [] first = Some("ponderhit") -> SendExpect("PonderHit")
             [] first = Some("position") -> Placeholder
             [] first = Some("quit") -> mpc' = "exited" /\ UNCHANGED <<chan, out>>
             [] first = Some("register") -> UNCHANGED <<mpc, chan, out>>
             [] first = Some("setoption") -> Placeholder
             [] first = Some("stop") -> SendExpect("Stop")
             [] first = Some("uci") -> identify
             [] first = Some("ucinewgame") -> UNCHANGED <<mpc, chan, out>>
             [] OTHER -> UNCHANGED <<mpc, chan, out>>
    /\ UNCHANGED rx_alive
    /\ UNCHANGED posvars

\* the lines read_line() returns: commands, commands with arguments and with
\* whitespace before them, an empty line, end of input, unrecognized words
InputLines ==
    { <<"debug", " ", "on", "\n">>, <<"go", " ", "infinite", "\n">>,
      <<"isready", "\n">>, <<"ponderhit", "\n">>,
      <<"position", " ", "startpos", "\n">>, <<"quit", "\n">>,
      <<"register", " ", "later", "\n">>, <<"setoption", " ", "name", "\n">>,
      <<"stop", "\n">>, <<"uci", "\n">>, <<"ucinewgame", "\n">>,
      <<"\n">>, <<>>, <<" ", "\t", "stop", "\n">>,
      <<"xyzzy", " ", "isready", "\n">>, <<"Uci", "\n">> }

ReadLine ==
    /\ Len(handled) < MaxLines
    /\ \E line \in InputLines : MainLoop(line)

PositionIdle ==
    /\ fen = <<>>
    /\ pos = NoPosition
    /\ st = "new"
    /\ call = NoCall
    /\ prev = NoCall
    /\ nmoves = 0

InitUci == UciIdle /\ PositionIdle
NextUci == EngineThreadManagerNew \/ ReadLine
SpecUci == InitUci /\ [][NextUci]_vars

\* the message a handled line asks to send, if any
MessageOf(line) ==
    LET tokens == split_whitespace(line)
    IN  IF Len(tokens) = 0 THEN <<>>
        ELSE CASE Head(tokens) = "isready" -> <<"IsReady">>
               [] Head(tokens) = "ponderhit" -> <<"PonderHit">>
               [] Head(tokens) = "stop" -> <<"Stop">>
               [] OTHER -> <<>>

RECURSIVE MessagesOf(_)
MessagesOf(lines) ==
    IF Len(lines) = 0 THEN <<>>
    ELSE MessageOf(Head(lines)) \o MessagesOf(Tail(lines))

\* C10: every isready, ponderhit or stop command handled has placed exactly
\* one message on the channel, and the channel holds these messages in the
\* order the commands were handled, none twice.
C10_FifoDelivery == chan = MessagesOf(handled)

---------------------------------------------------------------------------
(* Properties of the command loop *)

\* the line main() handled last
LastLine == handled[Len(handled)]

\* C11: handling an isready, ponderhit or stop line completes the send (the
\* message is the newest one on the channel) and the command loop goes on to
\* read the next line, whatever the state of the worker side of the channel.
C11_SendCompletes ==
    Len(handled) > 0 /\ MessageOf(LastLine) # <<>> =>
        /\ mpc = "loop"
        /\ chan # <<>>
        /\ chan[Len(chan)] = MessageOf(LastLine)[1]

\* the line is empty or its leading token is no command
Discarded(line) ==
    LET tokens == split_whitespace(line)
    IN  Len(tokens) = 0 \/ Head(tokens) \notin Commands

\* C12: a pass of the loop on a line that is empty or whose leading token is
\* unrecognized sends nothing on the channel, writes nothing to output, takes
\* no later token of the line as a command, and leaves main() in its loop,
\* ready for the next line.
C12_LineDiscarded ==
    [][handled' # handled /\ Discarded(handled'[Len(handled')]) =>
           /\ chan' = chan
           /\ out' = out
           /\ rx_alive' = rx_alive
           /\ mpc' = "loop"]_vars

\* after uci, a line with an unknown word followed by a command is handled:
\* the output is still the three lines of uci, nothing is sent, the loop is on
C12_Witness ==
    /\ Len(handled) = 2
    /\ split_whitespace(handled[1]) = <<"uci">>
    /\ LastLine = <<"xyzzy", " ", "isready", "\n">>
    /\ Len(out) = 3
    /\ chan = <<>>
    /\ mpc = "loop"

\* what an output line is
KindOf(text) ==
    CASE text = "id name farce" -> "id name"
      [] text = "id author Kef Schecter" -> "id author"
      [] text = "uciok" -> "uciok"
      [] OTHER -> "other"

IsUci(line) == split_whitespace(line) # <<>> /\ Head(split_whitespace(line)) = "uci"

\* the number of uci commands among the lines
RECURSIVE UciCount(_)
UciCount(lines) ==
    IF Len(lines) = 0 THEN 0
    ELSE (IF IsUci(Head(lines)) THEN 1 ELSE 0) + UciCount(Tail(lines))

\* C13: the output is three lines for each uci command handled so far and
\* nothing else: the engine identification line, the author identification
\* line, then uciok, in this order; no other command has written anything.
C13_UciThreeLines ==
    /\ Len(out) = 3 * UciCount(handled)
    /\ \A k \in 1 .. UciCount(handled) :
         /\ KindOf(out[3 * k - 2]) = "id name"
         /\ KindOf(out[3 * k - 1]) = "id author"
         /\ KindOf(out[3 * k]) = "uciok"

\* uci handled twice: six lines of output
C13_Witness ==
    /\ Len(handled) = 2
    /\ IsUci(handled[1])
    /\ IsUci(handled[2])
    /\ Len(out) = 6
    /\ out[4] = "id name farce"

---------------------------------------------------------------------------
(* can_piece_move_into_cell, asked about the squares of a Position *)

\* a variant of can_piece_move_into_cell that compares with my_color itself
can_piece_move_into_cell_OwnColor(cell, my_color) ==
    IF cell = Empty THEN TRUE
    ELSE IF ColorOf(cell) = my_color THEN TRUE
    ELSE FALSE

\* can_piece_move_into_cell(cell, my_color)
can_piece_move_into_cell(cell, my_color) ==
    IF cell = Empty THEN TRUE
    ELSE IF ColorOf(cell) = opposite_color(my_color) THEN TRUE
    ELSE FALSE

\* can_piece_move_into_cell(pos.cells[row][col], my_color) on a fresh Position
CanPieceMoveIntoCell(sq, my_color) ==
    /\ st = "ready"
    /\ call.op = "from_fen"
    /\ call' = [op |-> "can_piece_move_into_cell",
                sq |-> sq,
                cell |-> pos.cells[sq[1]][sq[2]],
                my_color |-> my_color,
                result |-> can_piece_move_into_cell(pos.cells[sq[1]][sq[2]], my_color)]
    /\ prev' = call
    /\ UNCHANGED <<fen, pos, st, nmoves>>
    /\ UNCHANGED ucivars

AnyCell == \E sq \in Squares : \E my_color \in Colors : CanPieceMoveIntoCell(sq, my_color)

NextCell == FromFen \/ AnyCell
SpecCell == Init /\ [][NextCell]_vars

\* C15: can_piece_move_into_cell(cell, my_color) is true for an Empty cell and
\* for a cell holding a piece of the other colour, and false for a cell
\* holding a piece of my_color, whatever the piece type.
C15_CanMoveIntoCell ==
    call.op = "can_piece_move_into_cell" =>
        /\ call.cell = Empty => call.result = TRUE
        /\ IsPiece(call.cell) /\ ColorOf(call.cell) # call.my_color => call.result = TRUE
        /\ IsPiece(call.cell) /\ ColorOf(call.cell) = call.my_color => call.result = FALSE

\* Black asks about a square holding its own queen: false
C15_Witness ==
    /\ call.op = "can_piece_move_into_cell"
    /\ call.cell = Piece("Queen", "Black")
    /\ call.my_color = "Black"
    /\ call.result = FALSE

---------------------------------------------------------------------------
(* Pseudo-legal moves: what make_move assumes of its caller.  The piece is  *)
(* of the side to move and moves as its type moves on the Position before  *)
(* the call; whether a king is left in check is not looked at.             *)

Abs(n) == IF n < 0 THEN -n ELSE n
Sign(n) == IF n < 0 THEN -1 ELSE IF n > 0 THEN 1 ELSE 0

\* the squares strictly between src and dst on a row, a column or a diagonal
Between(src, dst) ==
    LET dr == dst[1] - src[1]
        dc == dst[2] - src[2]
        n == IF Abs(dr) > Abs(dc) THEN Abs(dr) ELSE Abs(dc)
    IN  {<<src[1] + k * Sign(dr), src[2] + k * Sign(dc)>> : k \in 1 .. n - 1}

PathClear(p, src, dst) == \A sq \in Between(src, dst) : p.cells[sq[1]][sq[2]] = Empty

\* the row a colour's pieces start on, the row its pawns start on, and the
\* direction its pawns move in
HomeRow(color) == IF color = "White" THEN ROW_1 ELSE ROW_8
PawnRow(color) == IF color = "White" THEN ROW_2 ELSE ROW_7
Forward(color) == IF color = "White" THEN -1 ELSE 1

PawnMove(c) ==
    LET color == ColorOf(SrcCell(c))
        dr == c.dst[1] - c.src[1]
        dc == c.dst[2] - c.src[2]
        beside == c.pre.cells[c.src[1]][c.dst[2]]
    IN  /\ \/ dc = 0 /\ dr = Forward(color) /\ DstCell(c) = Empty
           \/ /\ dc = 0
              /\ dr = 2 * Forward(color)
              /\ c.src[1] = PawnRow(color)
              /\ DstCell(c) = Empty
              /\ PathClear(c.pre, c.src, c.dst)
           \/ /\ Abs(dc) = 1
              /\ dr = Forward(color)
              /\ \/ IsPiece(DstCell(c)) /\ ColorOf(DstCell(c)) # color
                 \/ /\ DstCell(c) = Empty
                    /\ OntoTarget(c)
                    /\ beside = Piece("Pawn", opposite_color(color))
        /\ NeedsPromotion(c.dst) => IsSome(c.promotion_type)

CastlingMove(c) ==
    LET color == ColorOf(SrcCell(c))
        row == HomeRow(color)
        kingside == c.dst[2] = COL_G
        corner == <<row, IF kingside THEN COL_H ELSE COL_A>>
        right == IF color = "White"
                 THEN IF kingside THEN c.pre.white_can_castle_kingside
                      ELSE c.pre.white_can_castle_queenside
                 ELSE IF kingside THEN c.pre.black_can_castle_kingside
                      ELSE c.pre.black_can_castle_queenside
    IN  /\ c.src = <<row, COL_E>>
        /\ c.dst \in {<<row, COL_G>>, <<row, COL_C>>}
        /\ right
        /\ c.pre.cells[corner[1]][corner[2]] = Piece("Rook", color)
        /\ PathClear(c.pre, c.src, corner)

PseudoLegal(c) ==
    /\ IsMove(c)
    /\ IsPiece(SrcCell(c))
    /\ ColorOf(SrcCell(c)) = c.pre.side_to_move
    /\ c.src # c.dst
    /\ LET piece_type == TypeOf(SrcCell(c))
           color == ColorOf(SrcCell(c))
           dr == Abs(c.dst[1] - c.src[1])
           dc == Abs(c.dst[2] - c.src[2])
           landing == DstCell(c) = Empty \/ ColorOf(DstCell(c)) # color
           straight == dr = 0 \/ dc = 0
           diagonal == dr = dc
       IN  CASE piece_type = "Pawn" -> PawnMove(c)
             [] piece_type = "Knight" -> {dr, dc} = {1, 2} /\ landing
             [] piece_type = "Bishop" -> diagonal /\ PathClear(c.pre, c.src, c.dst) /\ landing
             [] piece_type = "Rook" -> straight /\ PathClear(c.pre, c.src, c.dst) /\ landing
             [] piece_type = "Queen" ->
                    (straight \/ diagonal) /\ PathClear(c.pre, c.src, c.dst) /\ landing
             [] piece_type = "King" -> (dr <= 1 /\ dc <= 1 /\ landing) \/ CastlingMove(c)

\* the pawn left rank 2 for rank 4, or rank 7 for rank 5
HomeRankToFourth(c) ==
    \/ c.src[1] = ROW_2 /\ c.dst[1] = ROW_4
    \/ c.src[1] = ROW_7 /\ c.dst[1] = ROW_5

\* C16: after every make_move that returns, en_passant is set if and only if
\* a pawn was moved from rank 2 to rank 4 or from rank 7 to rank 5, whatever
\* en_passant was before the call; for a pseudo-legal move that is exactly a
\* pawn's two-square advance from its home rank, and the target is the square
\* it skipped.
C16_EnPassantIffAdvance ==
    Moved(call) =>
        /\ IsSome(pos.en_passant) <=> (MovedType(call, "Pawn") /\ HomeRankToFourth(call))
        /\ PseudoLegal(call) =>
             /\ IsSome(pos.en_passant) <=> TwoSquareAdvance(call)
             /\ TwoSquareAdvance(call) => pos.en_passant = Some(SkippedSquare(call))

\* a target that came from the text is gone after a pseudo-legal king step
C16_Witness ==
    /\ prev.op = "from_fen"
    /\ Moved(call)
    /\ PseudoLegal(call)
    /\ MovedType(call, "King")
    /\ IsSome(call.pre.en_passant)
    /\ pos.en_passant = None

---------------------------------------------------------------------------
(* Properties of games: sequences of make_move calls *)

\* side_to_move of the Position as from_fen built it
InitialSide == from_fen(fen).pos.side_to_move

\* C17: every make_move that returns sets side_to_move to the opposite of its
\* value before the call, whatever the colour of the piece moved and the kind
\* of move; opposite_color is an involution without fixed point; so after an
\* even number of returning moves side_to_move is its initial value and after
\* an odd number it is the opposite.
C17_SideFlips ==
    /\ \A color \in Colors :
         /\ opposite_color(color) \in Colors
         /\ opposite_color(color) # color
         /\ opposite_color(opposite_color(color)) = color
    /\ Moved(call) =>
         /\ pos.side_to_move = opposite_color(call.pre.side_to_move)
         /\ pos.side_to_move # call.pre.side_to_move
    /\ st = "ready" =>
         pos.side_to_move = IF nmoves % 2 = 0 THEN InitialSide
                            ELSE opposite_color(InitialSide)

\* two moves, the second by a piece of the side that had just moved: the side
\* to move is the initial one again
C17_Witness ==
    /\ nmoves = 2
    /\ Moved(prev)
    /\ Moved(call)
    /\ ColorOf(SrcCell(call)) # call.pre.side_to_move
    /\ pos.side_to_move = InitialSide
    /\ call.pre.side_to_move = opposite_color(InitialSide)

---------------------------------------------------------------------------
(* The en passant field of a text and the target make_move records *)

Files == <<"a", "b", "c", "d", "e", "f", "g", "h">>
Ranks == <<"1", "2", "3", "4", "5", "6", "7", "8">>

\* a text with both pawn ranks full and this en passant field
FenWithEp(ep) ==
    FenText(<<Kk7, <<"p", "p", "p", "p", "p", "p", "p", "p">>, R8, R8, R8, R8,
              <<"P", "P", "P", "P", "P", "P", "P", "P">>, KK7>>,
            <<W, Dash, ep, N0, N1>>)

\* one text for each of the 64 squares, and one without a target
EpFens ==
    {FenWithEp(<<Files[f], Ranks[r]>>) : f \in 1 .. 8, r \in 1 .. 8} \cup {FenWithEp(Dash)}

\* the pawn moves of one and of two squares from the pawns' home ranks
EpMoves ==
    {<<<<ROW_2, col>>, <<ROW_4, col>>>> : col \in Cols}
        \cup {<<<<ROW_7, col>>, <<ROW_5, col>>>> : col \in Cols}
        \cup {<<<<ROW_2, col>>, <<ROW_3, col>>>> : col \in Cols}
        \cup {<<<<ROW_7, col>>, <<ROW_6, col>>>> : col \in Cols}

\* a single pawn move on a fresh Position
PawnAdvance ==
    /\ nmoves = 0
    /\ \E m \in EpMoves : MakeMove(m[1], m[2], None)

InitEp == InitPosition(EpFens) /\ UciIdle
NextEp == FromFen \/ PawnAdvance
SpecEp == InitEp /\ [][NextEp]_vars

\* the en passant field of the text
EpField(text) == Cap(Captures(text).caps, "en_passant")

\* the name of a square in algebraic notation: file letter, rank digit
Algebraic(sq) == <<Files[sq[2] + 1], Ranks[8 - sq[1]]>>

\* C18: from_fen maps the file letter a..h of the en passant field to column
\* 0..7 and its rank digit 1..8 to row 7..0, for each of the 64 squares; and
\* the target make_move records for a two-square pawn advance is the target
\* from_fen decodes from the text that names the skipped square.
C18_AlgebraicSquares ==
    /\ call.op = "from_fen" =>
         /\ call.ret = "ok"
         /\ \A f \in 1 .. 8 : \A r \in 1 .. 8 :
              EpField(fen) = <<Files[f], Ranks[r]>> =>
                  pos.en_passant = Some(<<8 - r, f - 1>>)
         /\ EpField(fen) = Dash => pos.en_passant = None
    /\ TwoSquareAdvance(call) =>
         /\ IsSome(pos.en_passant)
         /\ pos.en_passant =
                from_fen(FenWithEp(Algebraic(Unwrap(pos.en_passant)))).pos.en_passant
         /\ Algebraic(Unwrap(pos.en_passant)) =
                <<Files[call.dst[2] + 1], IF call.dst[1] = ROW_4 THEN "3" ELSE "6">>

\* after e2-e4 on a Position decoded from a text naming h1, the target is
\* row 5, column 4, which is what from_fen decodes from e3
C18_Witness ==
    /\ TwoSquareAdvance(call)
    /\ EpField(fen) = <<"h", "1">>
    /\ call.pre.en_passant = Some(<<7, 7>>)
    /\ call.src = <<ROW_2, COL_E>>
    /\ pos.en_passant = Some(<<5, 4>>)
    /\ pos.en_passant = from_fen(FenWithEp(<<"e", "3">>)).pos.en_passant

---------------------------------------------------------------------------
(* A make_move call that fails as a contract violation *)

ContractViolation(c) ==
    /\ IsMove(c)
    /\ c.ret = "panic"
    /\ c.why \in {"Move from empty square", "unwrap on None"}

\* C19 as stated: a make_move call that fails because the source square is
\* empty, or because a pawn reaches the first or eighth rank with no promotion
\* type, leaves the whole Position as it was before the call.
C19_Unchanged == ContractViolation(call) => pos = call.pre

\* C19, amended: such a call leaves side_to_move, the four castling rights and
\* en_passant as they were, but not the board and the clock.  From an empty
\* source the destination is Empty afterwards and the clock is 0 if the
\* destination was occupied and the previous value plus 1 modulo 2^32 if not.
\* With a pawn and no promotion type the source is Empty, the pawn stands on
\* the destination, the cell at (source row, destination column) is Empty if
\* the destination was the en passant target, and the clock is 0.
C19_PartlyApplied ==
    ContractViolation(call) =>
        /\ pos.side_to_move = call.pre.side_to_move
        /\ Rights(pos) = Rights(call.pre)
        /\ pos.en_passant = call.pre.en_passant
        /\ call.why = "Move from empty square" =>
             /\ SrcCell(call) = Empty
             /\ pos.cells = Put(call.pre.cells, call.dst, Empty)
             /\ pos.halfmove_clock =
                    IF DstCell(call) = Empty
                    THEN WrappingSucc(call.pre.halfmove_clock) ELSE U32(0)
        /\ call.why = "unwrap on None" =>
             /\ MovedType(call, "Pawn")
             /\ LET moved == Put(Put(call.pre.cells, call.src, Empty),
                                 call.dst, SrcCell(call))
                IN  pos.cells = IF OntoTarget(call)
                                THEN Put(moved, <<call.src[1], call.dst[2]>>, Empty)
                                ELSE moved
             /\ pos.halfmove_clock = U32(0)

\* a call from an empty square onto a piece: the piece is gone, the clock is 0
C19_Witness ==
    /\ ContractViolation(call)
    /\ call.why = "Move from empty square"
    /\ IsPiece(DstCell(call))
    /\ call.pre.halfmove_clock # U32(0)
    /\ pos.cells[call.dst[1]][call.dst[2]] = Empty
    /\ pos.halfmove_clock = U32(0)

---------------------------------------------------------------------------
(* The number of occupied cells *)

Occupied(p) == Cardinality({sq \in Squares : IsPiece(p.cells[sq[1]][sq[2]])})

\* the move takes a piece: the destination was occupied, or a pawn moves
\* diagonally onto the empty en passant target
Capture(c) ==
    \/ IsPiece(DstCell(c))
    \/ MovedType(c, "Pawn") /\ Diagonal(c) /\ OntoTarget(c)

\* C20: no make_move that returns increases the number of occupied cells; a
\* pseudo-legal move decreases it by exactly one when it is a capture
\* (destination occupied before the move, or an en passant capture) and leaves
\* it unchanged otherwise, castling and promotion included.
C20_OccupiedCells ==
    Moved(call) =>
        /\ Occupied(pos) <= Occupied(call.pre)
        /\ PseudoLegal(call) =>
             Occupied(pos) = IF Capture(call) THEN Occupied(call.pre) - 1
                             ELSE Occupied(call.pre)

\* a pseudo-legal en passant capture: the destination was empty and one cell
\* fewer is occupied
C20_Witness ==
    /\ Moved(call)
    /\ PseudoLegal(call)
    /\ MovedType(call, "Pawn")
    /\ OntoTarget(call)
    /\ DstCell(call) = Empty
    /\ Occupied(pos) = Occupied(call.pre) - 1

=============================================================================
